---------------------------- MODULE Spec2Model ----------------------------
(***************************************************************************)
(* Model of the seller-apis repository: seller.py (Ozon) and market.py     *)
(* (Yandex.Market).  Both scripts enumerate a remote catalog page by page, *)
(* reconcile a downloaded stock feed against the enumerated offer ids and  *)
(* submit stock and price updates in chunks.                               *)
(*                                                                         *)
(* Python strings are modelled as sequences of one-character strings, so   *)
(* that str(), int(), split() and re.sub() are computed, not assumed.      *)
(* A spreadsheet cell is a tagged value: a str cell or an int cell.        *)
(* The dict keys "Код", "Количество", "Цена" are the record fields Kod,    *)
(* Kolichestvo, Tsena.                                                     *)
(***************************************************************************)
EXTENDS Integers, Sequences, FiniteSets, TLC

(***************************************************************************)
(* Bounds of the model.                                                    *)
(***************************************************************************)
\* Rows of a feed handed to create_stocks and create_prices, and to seller.py main.
MaxFeed == 2
\* Rows of the feed of a market.py run (two targets share it).
MaxFeedMarket == 1
\* Entries of a remote catalog.
MaxCatalog == 2
\* Length of an offer-id list handed to create_stocks and create_prices.
MaxIds == 3

(***************************************************************************)
(* Python values.                                                          *)
(***************************************************************************)
StrCell(s) == [kind |-> "str", s |-> s, i |-> 0]
IntCell(n) == [kind |-> "int", s |-> <<>>, i |-> n]

Digits == <<"0", "1", "2", "3", "4", "5", "6", "7", "8", "9">>

IsDigit(c) == \E d \in 1..10 : Digits[d] = c

DigitVal(c) == (CHOOSE d \in 1..10 : Digits[d] = c) - 1

RECURSIVE NatToStr(_)
NatToStr(n) ==
    IF n < 10 THEN <<Digits[n + 1]>>
    ELSE Append(NatToStr(n \div 10), Digits[(n % 10) + 1])

\* str(x) of a cell value.
PyStr(cell) ==
    IF cell.kind = "str" THEN cell.s
    ELSE IF cell.i < 0 THEN <<"-">> \o NatToStr(-cell.i)
    ELSE NatToStr(cell.i)

RECURSIVE LStrip(_)
LStrip(s) == IF s # <<>> /\ Head(s) = " " THEN LStrip(Tail(s)) ELSE s

RECURSIVE RStrip(_)
RStrip(s) ==
    IF s # <<>> /\ s[Len(s)] = " " THEN RStrip(SubSeq(s, 1, Len(s) - 1)) ELSE s

RECURSIVE DigitsValue(_, _)
DigitsValue(s, acc) ==
    IF s = <<>> THEN acc
    ELSE IF Head(s) = "_" THEN DigitsValue(Tail(s), acc)
    ELSE DigitsValue(Tail(s), 10 * acc + DigitVal(Head(s)))

\* The digit part of an integer literal: digits, single underscores between them.
IsDigitPart(s) ==
    /\ s # <<>>
    /\ \A k \in 1..Len(s) : IsDigit(s[k]) \/ s[k] = "_"
    /\ IsDigit(s[1])
    /\ IsDigit(s[Len(s)])
    /\ \A k \in 1..(Len(s) - 1) : ~(s[k] = "_" /\ s[k + 1] = "_")

\* int(x) of a cell value: [ok |-> FALSE] stands for the ValueError raised.
PyInt(cell) ==
    IF cell.kind = "int" THEN [ok |-> TRUE, v |-> cell.i]
    ELSE LET t == RStrip(LStrip(cell.s))
             signed == t # <<>> /\ Head(t) \in {"-", "+"}
             body == IF signed THEN Tail(t) ELSE t
         IN  IF IsDigitPart(body)
             THEN [ok |-> TRUE,
                   v |-> IF signed /\ Head(t) = "-"
                         THEN -DigitsValue(body, 0) ELSE DigitsValue(body, 0)]
             ELSE [ok |-> FALSE, v |-> 0]

\* x in lst
In(x, lst) == \E k \in 1..Len(lst) : lst[k] = x

\* lst.remove(x): drops the first occurrence of x (x is in lst at every call).
Remove(lst, x) ==
    LET k == CHOOSE j \in 1..Len(lst) :
                 lst[j] = x /\ \A m \in 1..(j - 1) : lst[m] # x
    IN  SubSeq(lst, 1, k - 1) \o SubSeq(lst, k + 1, Len(lst))

(***************************************************************************)
(* seller.py: price_conversion and divide (market.py imports both).        *)
(***************************************************************************)
RECURSIVE BeforeDot(_)
BeforeDot(s) ==
    IF s = <<>> \/ Head(s) = "." THEN <<>> ELSE <<Head(s)>> \o BeforeDot(Tail(s))

RECURSIVE OnlyDigits(_)
OnlyDigits(s) ==
    IF s = <<>> THEN <<>>
    ELSE IF IsDigit(Head(s)) THEN <<Head(s)>> \o OnlyDigits(Tail(s))
    ELSE OnlyDigits(Tail(s))

\* The digits of the whole string, the part after the "." included.
price_conversion_whole(price) == OnlyDigits(price)

\* The digits before the "." followed by two digits of kopecks.
price_conversion_kopecks(price) == OnlyDigits(BeforeDot(price)) \o <<"0", "0">>

\* re.sub("[^0-9]", "", price.split(".")[0])
price_conversion(price) == OnlyDigits(BeforeDot(price))

RECURSIVE Slices(_, _, _)
Slices(lst, n, i) ==
    IF i >= Len(lst) THEN <<>>
    ELSE <<SubSeq(lst, i + 1, IF i + n < Len(lst) THEN i + n ELSE Len(lst))>>
         \o Slices(lst, n, i + n)

\* divide without its last, shorter chunk.
divide_drop_partial(lst, n) ==
    IF n <= 0 THEN [raised |-> TRUE, chunks |-> <<>>]
    ELSE [raised |-> FALSE,
          chunks |-> Slices(SubSeq(lst, 1, (Len(lst) \div n) * n), n, 0)]

\* divide cutting chunks of n + 1 entries.
divide_oversized(lst, n) ==
    IF n <= 0 THEN [raised |-> TRUE, chunks |-> <<>>]
    ELSE [raised |-> FALSE, chunks |-> Slices(lst, n + 1, 0)]

\* divide without the check of n: nothing is yielded for n <= 0.
divide_unchecked(lst, n) ==
    IF n <= 0 THEN [raised |-> FALSE, chunks |-> <<>>]
    ELSE [raised |-> FALSE, chunks |-> Slices(lst, n, 0)]

\* list(divide(lst, n)): raised stands for the ValueError of n <= 0.
divide(lst, n) ==
    IF n <= 0 THEN [raised |-> TRUE, chunks |-> <<>>]
    ELSE [raised |-> FALSE, chunks |-> Slices(lst, n, 0)]

(***************************************************************************)
(* The inputs the model draws from.                                        *)
(***************************************************************************)
\* Offer ids a catalog may list.
OfferIds == {<<"A">>, <<"7">>}

\* Rows download_stock may return: every quantity rule, a quantity int()
\* rejects, prices that normalize to digits and to the empty string, a sku
\* that no catalog lists, and skus that repeat (as text and as a number).
FeedRows ==
    { [Kod |-> StrCell(<<"A">>), Kolichestvo |-> StrCell(<<">", "1", "0">>),
       Tsena |-> <<"5", "'", "9", ".", "0", " ", "r">>],
      [Kod |-> StrCell(<<"A">>), Kolichestvo |-> StrCell(<<"1">>),
       Tsena |-> <<>>],
      [Kod |-> IntCell(7), Kolichestvo |-> IntCell(3),
       Tsena |-> <<"1", "2">>],
      [Kod |-> StrCell(<<"7">>), Kolichestvo |-> StrCell(<<"a", "b">>),
       Tsena |-> <<"r", ".", "5">>],
      [Kod |-> StrCell(<<"C">>), Kolichestvo |-> StrCell(<<"7">>),
       Tsena |-> <<"1", "2">>],
      [Kod |-> StrCell(<<"A">>), Kolichestvo |-> StrCell(<<"-", "3">>),
       Tsena |-> <<"4">>] }

SeqsUpTo(S, n) == UNION {[1..k -> S] : k \in 0..n}

Feeds == SeqsUpTo(FeedRows, MaxFeed)

(***************************************************************************)
(* seller.py: create_stocks, create_prices.                                *)
(***************************************************************************)
\* The quantity rules of create_stocks; ok = FALSE when int() raises.
\* The quantity rules with ">10" read as a number above ten.
seller_stock_numeric(watch) ==
    LET count == PyStr(watch.Kolichestvo)
        n == PyInt(watch.Kolichestvo)
    IN  IF count = <<">", "1", "0">> \/ (n.ok /\ n.v > 10)
        THEN [ok |-> TRUE, v |-> 100]
        ELSE IF count = <<"1">> THEN [ok |-> TRUE, v |-> 0]
        ELSE n

seller_stock(watch) ==
    LET count == PyStr(watch.Kolichestvo)
    IN  IF count = <<">", "1", "0">> THEN [ok |-> TRUE, v |-> 100]
        ELSE IF count = <<"1">> THEN [ok |-> TRUE, v |-> 0]
        ELSE PyInt(watch.Kolichestvo)

\* The first loop of create_stocks.  offer_ids is the caller's list, which
\* the loop changes in place; on a raise it keeps the removals made so far.
RECURSIVE seller_matched(_, _, _)
seller_matched(rows, offer_ids, stocks) ==
    IF rows = <<>>
    THEN [raised |-> FALSE, stocks |-> stocks, offer_ids |-> offer_ids]
    ELSE LET watch == Head(rows)
             code == PyStr(watch.Kod)
         IN  IF In(code, offer_ids)
             THEN IF seller_stock(watch).ok
                  THEN seller_matched(
                           Tail(rows), Remove(offer_ids, code),
                           Append(stocks, [offer_id |-> code,
                                           stock |-> seller_stock(watch).v]))
                  ELSE [raised |-> TRUE, stocks |-> stocks,
                        offer_ids |-> offer_ids]
             ELSE seller_matched(Tail(rows), offer_ids, stocks)

\* create_stocks without its second loop.
seller_create_stocks_matched_only(watch_rem, ids) ==
    seller_matched(watch_rem, ids, <<>>)

\* create_stocks with the entries of the unmatched ids put first.
seller_create_stocks_unmatched_first(watch_rem, ids) ==
    LET m == seller_matched(watch_rem, ids, <<>>)
    IN  IF m.raised THEN m
        ELSE [m EXCEPT !.stocks =
                 [k \in 1..Len(m.offer_ids) |->
                     [offer_id |-> m.offer_ids[k], stock |-> 0]] \o m.stocks]

seller_create_stocks(watch_rem, ids) ==
    LET m == seller_matched(watch_rem, ids, <<>>)
    IN  IF m.raised THEN m
        ELSE [m EXCEPT !.stocks =
                 m.stocks \o [k \in 1..Len(m.offer_ids) |->
                                 [offer_id |-> m.offer_ids[k], stock |-> 0]]]

RECURSIVE seller_price_loop(_, _, _)
seller_price_loop(rows, ids, acc) ==
    IF rows = <<>> THEN acc
    ELSE LET watch == Head(rows)
         IN  IF In(PyStr(watch.Kod), ids)
             THEN seller_price_loop(
                      Tail(rows), ids,
                      Append(acc, [auto_action_enabled |-> "UNKNOWN",
                                   currency_code |-> "RUB",
                                   offer_id |-> PyStr(watch.Kod),
                                   old_price |-> "0",
                                   price |-> price_conversion(watch.Tsena)]))
             ELSE seller_price_loop(Tail(rows), ids, acc)

\* create_prices of seller.py never raises on str prices.
seller_create_prices(watch_rem, ids) ==
    [raised |-> FALSE, prices |-> seller_price_loop(watch_rem, ids, <<>>)]

(***************************************************************************)
(* market.py: create_stocks, create_prices.                                *)
(***************************************************************************)
market_stock(watch) ==
    LET count == PyStr(watch.Kolichestvo)
    IN  IF count = <<">", "1", "0">> THEN [ok |-> TRUE, v |-> 100]
        ELSE IF count = <<"1">> THEN [ok |-> TRUE, v |-> 0]
        ELSE PyInt(watch.Kolichestvo)

\* One entry of the stock list; every entry of a call shares the date of
\* the call, which the model leaves out.
market_entry(sku, warehouse_id, count) ==
    [sku |-> sku, warehouseId |-> warehouse_id,
     items |-> <<[count |-> count, type |-> "FIT"]>>]

RECURSIVE market_matched(_, _, _, _)
market_matched(rows, offer_ids, warehouse_id, stocks) ==
    IF rows = <<>>
    THEN [raised |-> FALSE, stocks |-> stocks, offer_ids |-> offer_ids]
    ELSE LET watch == Head(rows)
             code == PyStr(watch.Kod)
         IN  IF In(code, offer_ids)
             THEN IF market_stock(watch).ok
                  THEN market_matched(
                           Tail(rows), Remove(offer_ids, code), warehouse_id,
                           Append(stocks,
                                  market_entry(code, warehouse_id,
                                               market_stock(watch).v)))
                  ELSE [raised |-> TRUE, stocks |-> stocks,
                        offer_ids |-> offer_ids]
             ELSE market_matched(Tail(rows), offer_ids, warehouse_id, stocks)

market_create_stocks(watch_rem, ids, warehouse_id) ==
    LET m == market_matched(watch_rem, ids, warehouse_id, <<>>)
    IN  IF m.raised THEN m
        ELSE [m EXCEPT !.stocks =
                 m.stocks \o [k \in 1..Len(m.offer_ids) |->
                                 market_entry(m.offer_ids[k], warehouse_id, 0)]]

\* raised stands for the ValueError of int("") on a price without digits.
RECURSIVE market_price_loop(_, _, _)
market_price_loop(rows, ids, acc) ==
    IF rows = <<>> THEN [raised |-> FALSE, prices |-> acc]
    ELSE LET watch == Head(rows)
             value == PyInt(StrCell(price_conversion(watch.Tsena)))
         IN  IF In(PyStr(watch.Kod), ids)
             THEN IF value.ok
                  THEN market_price_loop(
                           Tail(rows), ids,
                           Append(acc, [id |-> PyStr(watch.Kod),
                                        price |-> [value |-> value.v,
                                                   currencyId |-> "RUR"]]))
                  ELSE [raised |-> TRUE, prices |-> acc]
             ELSE market_price_loop(Tail(rows), ids, acc)

market_create_prices(watch_rem, ids) == market_price_loop(watch_rem, ids, <<>>)

(***************************************************************************)
(* State.                                                                  *)
(***************************************************************************)
VARIABLES
    entry,           \* what runs: a main, or calls of the create_* functions
    pc,              \* the statement the run is at
    target,          \* "OZON" (seller.py); "FBS", then "DBS" (market.py)
    catalog,         \* the remote catalogs: target -> listed offer ids
    cursor,          \* last_id (seller.py) / page (market.py); 0 is ""
    product_list,    \* get_offer_ids: the entries fetched so far
    offer_ids,       \* the caller's offer-id list
    watch_remnants,  \* the feed
    stocks,          \* the list create_stocks returned
    prices,          \* the list create_prices returned
    chunks,          \* list(divide(...)): the chunks not yet submitted
    report,          \* what the except clauses of main printed
    div_lst,         \* divide(lst, n): the list a dispatch loop divides
    div_n,           \* divide(lst, n): the batch size of that loop
    price,           \* price_conversion(price): the argument
    converted,       \* history: the strings price_conversion returned
    some_prod,       \* get_offer_ids: the response of the pending fetch
    enumerated,      \* history: target -> the list get_offer_ids returned
    trace            \* history: remote calls and reconciliation calls, in order

vars == <<entry, pc, target, catalog, cursor, product_list, offer_ids,
          watch_remnants, stocks, prices, chunks, report, div_lst, div_n,
          price, converted, some_prod, enumerated, trace>>

\* The arguments and locals of the directly called functions: untouched by
\* the mains.
args == <<div_lst, div_n, price, converted, some_prod>>

Targets == {"OZON", "FBS", "DBS"}

\* requests.post / requests.get / raise_for_status may raise any of these.
RemoteErrors == {"ReadTimeout", "ConnectionError", "HTTPError"}

Catalogs == SeqsUpTo(OfferIds, MaxCatalog)

\* arg is the list handed to the call: the chunk of an update call, the
\* offer-id list of a create_* call.
Event(op, t, ok, cur, arg) ==
    [op |-> op, target |-> t, ok |-> ok, cursor |-> cur, arg |-> arg]

\* A call of get_product_list with the current cursor, and the return of
\* get_offer_ids with the list ids.
Fetched(ok) == Event("get_product_list", target, ok, cursor, <<>>)
Returned(ids) == Event("get_offer_ids", target, TRUE, 0, ids)

\* The three except clauses that end both mains.
except_clause(exc) ==
    IF exc = "ReadTimeout" THEN "timeout"
    ELSE IF exc = "ConnectionError" THEN "connection"
    ELSE "ERROR_2"

Min(a, b) == IF a < b THEN a ELSE b

\* The page sizes the remote may serve from position cur with the limit asked.
PageSizes(cat, cur, limit) ==
    IF cur >= Len(cat) THEN {0} ELSE 1..Min(limit, Len(cat) - cur)

\* No response yet.
NoResponse == [items |-> <<>>, cursor |-> 0]

NoArgs ==
    /\ some_prod = NoResponse
    /\ div_lst = <<>>
    /\ div_n = 0
    /\ price = <<>>
    /\ converted = <<>>

InitLocals ==
    /\ cursor = 0
    /\ product_list = <<>>
    /\ stocks = <<>>
    /\ prices = <<>>
    /\ chunks = <<>>
    /\ report = "none"
    /\ trace = <<>>

(***************************************************************************)
(* seller.py: main.                                                        *)
(***************************************************************************)
SellerPageLimit == 1000
SellerStockLimit == 100
SellerPriceLimit == 900

InitSeller ==
    /\ entry = "seller_main"
    /\ pc = "get_offer_ids"
    /\ target = "OZON"
    /\ catalog \in {c \in [Targets -> Catalogs] : c["FBS"] = <<>> /\ c["DBS"] = <<>>}
    /\ watch_remnants = <<>>
    /\ offer_ids = <<>>
    /\ enumerated = [t \in Targets |-> <<>>]
    /\ InitLocals
    /\ NoArgs

\* An exception reaches the except clauses of main: the run ends.
Raise(exc) ==
    /\ pc' = "done"
    /\ report' = except_clause(exc)

\* One iteration of the loop of get_offer_ids, and its return when the
\* loop breaks.
\* The loop of get_offer_ids leaving after its first iteration.
seller_fetch_one_page(k) ==
    LET items == SubSeq(catalog[target], cursor + 1, cursor + k)
        got == product_list \o items
    IN  /\ product_list' = got
        /\ cursor' = cursor + k
        /\ trace' = trace \o <<Fetched(TRUE), Returned(got)>>
        /\ offer_ids' = got
        /\ enumerated' = [enumerated EXCEPT ![target] = got]
        /\ pc' = "download_stock"
        /\ UNCHANGED <<args, entry, target, catalog, watch_remnants, stocks, prices,
                       chunks, report>>

seller_fetch(k) ==
    LET items == SubSeq(catalog[target], cursor + 1, cursor + k)
        total == Len(catalog[target])
        got == product_list \o items
    IN  /\ product_list' = got
        /\ cursor' = cursor + k
        /\ IF total = Len(got)
           THEN /\ trace' = trace \o <<Fetched(TRUE), Returned(got)>>
                /\ offer_ids' = got
                /\ enumerated' = [enumerated EXCEPT ![target] = got]
                /\ pc' = "download_stock"
           ELSE /\ trace' = Append(trace, Fetched(TRUE))
                /\ UNCHANGED <<offer_ids, enumerated, pc>>
        /\ UNCHANGED <<args, entry, target, catalog, watch_remnants, stocks, prices,
                       chunks, report>>

\* get_offer_ids swallowing the exception and returning what it has.
seller_fetch_fails_swallowed(exc) ==
    /\ trace' = trace \o <<Fetched(FALSE), Returned(product_list)>>
    /\ offer_ids' = product_list
    /\ enumerated' = [enumerated EXCEPT ![target] = product_list]
    /\ pc' = "download_stock"
    /\ UNCHANGED <<args, entry, target, catalog, cursor, product_list,
                   watch_remnants, stocks, prices, chunks, report>>

seller_fetch_fails(exc) ==
    /\ trace' = Append(trace, Fetched(FALSE))
    /\ Raise(exc)
    /\ UNCHANGED <<args, entry, target, catalog, cursor, product_list, offer_ids,
                   watch_remnants, stocks, prices, chunks, enumerated>>

SellerGetOfferIds ==
    /\ entry = "seller_main"
    /\ pc = "get_offer_ids"
    /\ \/ \E k \in PageSizes(catalog[target], cursor, SellerPageLimit) : seller_fetch(k)
       \/ \E exc \in RemoteErrors : seller_fetch_fails(exc)

SellerDownloadStock ==
    /\ entry = "seller_main"
    /\ pc = "download_stock"
    /\ \/ /\ \E feed \in Feeds : watch_remnants' = feed
          /\ trace' = Append(trace, Event("download_stock", target, TRUE, 0, <<>>))
          /\ pc' = "create_stocks"
          /\ UNCHANGED report
       \/ /\ \E exc \in RemoteErrors : Raise(exc)
          /\ trace' = Append(trace, Event("download_stock", target, FALSE, 0, <<>>))
          /\ UNCHANGED watch_remnants
    /\ UNCHANGED <<args, entry, target, catalog, cursor, product_list, offer_ids,
                   stocks, prices, chunks, enumerated>>

\* stocks = create_stocks(...) and the list(divide(stocks, 100)) of the loop.
seller_main_create_stocks ==
    LET r == seller_create_stocks(watch_remnants, offer_ids)
        d == divide(r.stocks, SellerStockLimit)
    IN  /\ offer_ids' = r.offer_ids
        /\ trace' = Append(trace, Event("create_stocks", target, ~r.raised, 0, offer_ids))
        /\ IF r.raised
           THEN /\ Raise("ValueError")
                /\ UNCHANGED <<stocks, chunks>>
           ELSE /\ stocks' = r.stocks
                /\ chunks' = d.chunks
                /\ pc' = IF d.chunks = <<>> THEN "create_prices" ELSE "update_stocks"
                /\ UNCHANGED report
        /\ UNCHANGED <<args, entry, target, catalog, cursor, product_list,
                       watch_remnants, prices, enumerated>>

SellerCreateStocks ==
    /\ entry = "seller_main"
    /\ pc = "create_stocks"
    /\ seller_main_create_stocks

\* One iteration of a dispatch loop: the call of update_stocks or
\* update_price on the next chunk; after is where the run goes after the loop.
submit(op, after) ==
    \/ /\ trace' = Append(trace, Event(op, target, TRUE, 0, Head(chunks)))
       /\ chunks' = Tail(chunks)
       /\ pc' = IF Tail(chunks) = <<>> THEN after ELSE pc
       /\ UNCHANGED report
    \/ /\ trace' = Append(trace, Event(op, target, FALSE, 0, Head(chunks)))
       /\ \E exc \in RemoteErrors : Raise(exc)
       /\ UNCHANGED chunks

SellerUpdateStocks ==
    /\ entry = "seller_main"
    /\ pc = "update_stocks"
    /\ submit("update_stocks", "create_prices")
    /\ UNCHANGED <<args, entry, target, catalog, cursor, product_list, offer_ids,
                   watch_remnants, stocks, prices, enumerated>>

\* prices = create_prices(...) and the list(divide(prices, 900)) of the loop.
seller_main_create_prices ==
    LET r == seller_create_prices(watch_remnants, offer_ids)
        d == divide(r.prices, SellerPriceLimit)
    IN  /\ prices' = r.prices
        /\ trace' = Append(trace, Event("create_prices", target, TRUE, 0, offer_ids))
        /\ chunks' = d.chunks
        /\ pc' = IF d.chunks = <<>> THEN "done" ELSE "update_price"
        /\ UNCHANGED <<args, entry, target, catalog, cursor, product_list, offer_ids,
                       watch_remnants, stocks, report, enumerated>>

SellerCreatePrices ==
    /\ entry = "seller_main"
    /\ pc = "create_prices"
    /\ seller_main_create_prices

SellerUpdatePrice ==
    /\ entry = "seller_main"
    /\ pc = "update_price"
    /\ submit("update_price", "done")
    /\ UNCHANGED <<args, entry, target, catalog, cursor, product_list, offer_ids,
                   watch_remnants, stocks, prices, enumerated>>

NextSeller ==
    \/ SellerGetOfferIds
    \/ SellerDownloadStock
    \/ SellerCreateStocks
    \/ SellerUpdateStocks
    \/ SellerCreatePrices
    \/ SellerUpdatePrice

SpecSeller == InitSeller /\ [][NextSeller]_vars

(***************************************************************************)
(* market.py: main.                                                        *)
(***************************************************************************)
MarketPageLimit == 200
MarketStockLimit == 2000
MarketPriceLimit == 500

FeedsMarket == SeqsUpTo(FeedRows, MaxFeedMarket)

\* env.str("WAREHOUSE_FBS_ID"), env.str("WAREHOUSE_DBS_ID")
warehouse_id(t) == IF t = "FBS" THEN "warehouse_fbs_id" ELSE "warehouse_dbs_id"

InitMarket ==
    /\ entry = "market_main"
    /\ pc = "download_stock"
    /\ target = "FBS"
    /\ catalog \in {c \in [Targets -> Catalogs] : c["OZON"] = <<>>}
    /\ watch_remnants = <<>>
    /\ offer_ids = <<>>
    /\ enumerated = [t \in Targets |-> <<>>]
    /\ InitLocals
    /\ NoArgs

\* download_stock() is called before the try statement: when it raises,
\* no except clause of main sees the exception.
MarketDownloadStock ==
    /\ entry = "market_main"
    /\ pc = "download_stock"
    /\ \/ /\ \E feed \in FeedsMarket : watch_remnants' = feed
          /\ trace' = Append(trace, Event("download_stock", target, TRUE, 0, <<>>))
          /\ pc' = "get_offer_ids"
       \/ /\ trace' = Append(trace, Event("download_stock", target, FALSE, 0, <<>>))
          /\ pc' = "crashed"
          /\ UNCHANGED watch_remnants
    /\ UNCHANGED <<args, entry, target, catalog, cursor, product_list, offer_ids,
                   stocks, prices, chunks, report, enumerated>>

\* One iteration of the loop of get_offer_ids; the remote leaves
\* nextPageToken out (0) when it served the last entries.
market_fetch(k) ==
    LET items == SubSeq(catalog[target], cursor + 1, cursor + k)
        page == IF cursor + k < Len(catalog[target]) THEN cursor + k ELSE 0
        got == product_list \o items
    IN  /\ product_list' = got
        /\ cursor' = page
        /\ IF page = 0
           THEN /\ trace' = trace \o <<Fetched(TRUE), Returned(got)>>
                /\ offer_ids' = got
                /\ enumerated' = [enumerated EXCEPT ![target] = got]
                /\ pc' = "create_stocks"
           ELSE /\ trace' = Append(trace, Fetched(TRUE))
                /\ UNCHANGED <<offer_ids, enumerated, pc>>
        /\ UNCHANGED <<args, entry, target, catalog, watch_remnants, stocks, prices,
                       chunks, report>>

market_fetch_fails(exc) ==
    /\ trace' = Append(trace, Fetched(FALSE))
    /\ Raise(exc)
    /\ UNCHANGED <<args, entry, target, catalog, cursor, product_list, offer_ids,
                   watch_remnants, stocks, prices, chunks, enumerated>>

MarketGetOfferIds ==
    /\ entry = "market_main"
    /\ pc = "get_offer_ids"
    /\ \/ \E k \in PageSizes(catalog[target], cursor, MarketPageLimit) : market_fetch(k)
       \/ \E exc \in RemoteErrors : market_fetch_fails(exc)

\* stocks = create_stocks(...) and the list(divide(stocks, 2000)) of the loop.
market_main_create_stocks ==
    LET r == market_create_stocks(watch_remnants, offer_ids, warehouse_id(target))
        d == divide(r.stocks, MarketStockLimit)
    IN  /\ offer_ids' = r.offer_ids
        /\ trace' = Append(trace, Event("create_stocks", target, ~r.raised, 0, offer_ids))
        /\ IF r.raised
           THEN /\ Raise("ValueError")
                /\ UNCHANGED <<stocks, chunks>>
           ELSE /\ stocks' = r.stocks
                /\ chunks' = d.chunks
                /\ pc' = IF d.chunks = <<>> THEN "upload_prices" ELSE "update_stocks"
                /\ UNCHANGED report
        /\ UNCHANGED <<args, entry, target, catalog, cursor, product_list,
                       watch_remnants, prices, enumerated>>

MarketCreateStocks ==
    /\ entry = "market_main"
    /\ pc = "create_stocks"
    /\ market_main_create_stocks

MarketUpdateStocks ==
    /\ entry = "market_main"
    /\ pc = "update_stocks"
    /\ submit("update_stocks", "upload_prices")
    /\ UNCHANGED <<args, entry, target, catalog, cursor, product_list, offer_ids,
                   watch_remnants, stocks, prices, enumerated>>

\* upload_prices(...) in main: upload_prices is an async def and main does
\* not await the call, so the call only makes a coroutine object and no
\* statement of upload_prices runs.  After FBS, main goes on to DBS.
market_main_upload_prices ==
    /\ trace' = Append(trace, Event("upload_prices", target, TRUE, 0, <<>>))
    /\ IF target = "FBS"
       THEN /\ target' = "DBS"
            /\ cursor' = 0
            /\ product_list' = <<>>
            /\ pc' = "get_offer_ids"
       ELSE /\ pc' = "done"
            /\ UNCHANGED <<target, cursor, product_list>>
    /\ UNCHANGED <<args, entry, catalog, offer_ids, watch_remnants, stocks, prices,
                   chunks, report, enumerated>>

MarketUploadPrices ==
    /\ entry = "market_main"
    /\ pc = "upload_prices"
    /\ market_main_upload_prices

NextMarket ==
    \/ MarketDownloadStock
    \/ MarketGetOfferIds
    \/ MarketCreateStocks
    \/ MarketUpdateStocks
    \/ MarketUploadPrices

SpecMarket == InitMarket /\ [][NextMarket]_vars

(***************************************************************************)
(* Calls of create_stocks and create_prices on drawn arguments.            *)
(***************************************************************************)
IdLists == SeqsUpTo(OfferIds, MaxIds)

InitFunctions ==
    /\ \/ entry = "seller_functions" /\ target = "OZON"
       \/ entry = "market_functions" /\ target \in {"FBS", "DBS"}
    /\ pc = "call"
    /\ catalog = [t \in Targets |-> <<>>]
    /\ watch_remnants \in Feeds
    /\ \E ids \in IdLists :
          /\ enumerated = [t \in Targets |-> IF t = target THEN ids ELSE <<>>]
          /\ offer_ids = ids
    /\ InitLocals
    /\ NoArgs

Called(op) == \E k \in 1..Len(trace) : trace[k].op = op

\* create_stocks(watch_remnants, offer_ids) on the caller's list.
CallCreateStocks ==
    /\ entry \in {"seller_functions", "market_functions"}
    /\ ~Called("create_stocks")
    /\ LET r == IF entry = "seller_functions"
                THEN seller_create_stocks(watch_remnants, offer_ids)
                ELSE market_create_stocks(watch_remnants, offer_ids,
                                          warehouse_id(target))
       IN  /\ offer_ids' = r.offer_ids
           /\ stocks' = IF r.raised THEN stocks ELSE r.stocks
           /\ trace' = Append(trace, Event("create_stocks", target, ~r.raised,
                                           0, offer_ids))
    /\ UNCHANGED <<args, entry, pc, target, catalog, cursor, product_list,
                   watch_remnants, prices, chunks, report, enumerated>>

\* create_prices(watch_remnants, ids): the caller hands over the list it
\* holds (as seller.py main does) or a list just enumerated (as
\* upload_prices does).
CallCreatePrices ==
    /\ entry \in {"seller_functions", "market_functions"}
    /\ ~Called("create_prices")
    /\ \E ids \in {offer_ids, enumerated[target]} :
          LET r == IF entry = "seller_functions"
                   THEN seller_create_prices(watch_remnants, ids)
                   ELSE market_create_prices(watch_remnants, ids)
          IN  /\ prices' = IF r.raised THEN prices ELSE r.prices
              /\ trace' = Append(trace, Event("create_prices", target,
                                              ~r.raised, 0, ids))
    /\ UNCHANGED <<args, entry, pc, target, catalog, cursor, product_list, offer_ids,
                   watch_remnants, stocks, chunks, report, enumerated>>

NextFunctions == CallCreateStocks \/ CallCreatePrices

SpecFunctions == InitFunctions /\ [][NextFunctions]_vars

(***************************************************************************)
(* The dispatch loops: for chunk in list(divide(lst, n)): update(chunk).   *)
(* upload_stocks and upload_prices of both scripts and the loops of the    *)
(* mains have this shape and differ in the batch size n and in the remote  *)
(* call. A run starts where the list is built; its entries are numbered    *)
(* 1..N. The batch sizes are those of the source and, for divide itself,   *)
(* every n of a small range around 0.                                      *)
(***************************************************************************)
\* Entries of a short list handed to a loop.
MaxLen == 5
\* Full chunks of the longest list handed to a loop with a batch size n.
MaxChunks == 2
\* The drawn batch sizes are -MaxBatch..MaxBatch.
MaxBatch == 3

\* divide(prices, 1000) of upload_prices of seller.py.
SellerUploadPriceLimit == 1000

UpdateOps == {"update_stocks", "update_price"}

\* The batch sizes the source passes to divide, by script and remote call.
CodeLoops ==
    {[target |-> "OZON", op |-> "update_stocks", n |-> SellerStockLimit],
     [target |-> "OZON", op |-> "update_price", n |-> SellerPriceLimit],
     [target |-> "OZON", op |-> "update_price", n |-> SellerUploadPriceLimit]}
    \cup {[target |-> t, op |-> "update_stocks", n |-> MarketStockLimit] :
             t \in {"FBS", "DBS"}}
    \cup {[target |-> t, op |-> "update_price", n |-> MarketPriceLimit] :
             t \in {"FBS", "DBS"}}

DrawnLoops ==
    {[target |-> "OZON", op |-> o, n |-> b] :
        o \in UpdateOps, b \in (0 - MaxBatch)..MaxBatch}

\* Lengths around the multiples of the batch size, and the short ones.
Lengths(n) ==
    {N \in {k * n + d : k \in 0..MaxChunks, d \in {0 - 1, 0, 1}} : N >= 0}
    \cup (0..MaxLen)

InitDispatch ==
    /\ entry = "dispatch"
    /\ \E loop \in CodeLoops \cup DrawnLoops :
           /\ target = loop.target
           /\ pc = loop.op
           /\ div_n = loop.n
           /\ \E N \in Lengths(loop.n) : div_lst = [k \in 1..N |-> k]
    /\ catalog = [t \in Targets |-> <<>>]
    /\ enumerated = [t \in Targets |-> <<>>]
    /\ offer_ids = <<>>
    /\ watch_remnants = <<>>
    /\ price = <<>>
    /\ converted = <<>>
    /\ some_prod = NoResponse
    /\ InitLocals

\* list(divide(lst, n)), evaluated once before the first iteration.
DispatchDivide ==
    /\ entry = "dispatch"
    /\ pc \in UpdateOps
    /\ trace = <<>>
    /\ LET d == divide(div_lst, div_n)
       IN  /\ trace' = <<Event("divide", target, ~d.raised, 0, <<>>)>>
           /\ chunks' = d.chunks
           /\ pc' = IF d.raised THEN "raised"
                    ELSE IF d.chunks = <<>> THEN "returned"
                    ELSE pc
    /\ UNCHANGED <<args, entry, target, catalog, cursor, product_list,
                   offer_ids, watch_remnants, stocks, prices, report,
                   enumerated>>

\* An iteration that tries the failed chunk again.
upload_submit_retry(op) ==
    \/ /\ trace' = Append(trace, Event(op, target, TRUE, 0, Head(chunks)))
       /\ chunks' = Tail(chunks)
       /\ pc' = IF Tail(chunks) = <<>> THEN "returned" ELSE pc
    \/ /\ trace' = Append(trace, Event(op, target, FALSE, 0, Head(chunks)))
       /\ UNCHANGED <<pc, chunks>>

\* One iteration of the loop of an upload_* function: the exception of a
\* failed update call leaves the function.
upload_submit(op) ==
    \/ /\ trace' = Append(trace, Event(op, target, TRUE, 0, Head(chunks)))
       /\ chunks' = Tail(chunks)
       /\ pc' = IF Tail(chunks) = <<>> THEN "returned" ELSE pc
    \/ /\ trace' = Append(trace, Event(op, target, FALSE, 0, Head(chunks)))
       /\ pc' = "raised"
       /\ UNCHANGED chunks

DispatchSubmit ==
    /\ entry = "dispatch"
    /\ pc \in UpdateOps
    /\ trace # <<>>
    /\ upload_submit(pc)
    /\ UNCHANGED <<args, entry, target, catalog, cursor, product_list,
                   offer_ids, watch_remnants, stocks, prices, report,
                   enumerated>>

NextDispatch == DispatchDivide \/ DispatchSubmit

SpecDispatch == InitDispatch /\ [][NextDispatch]_vars

(***************************************************************************)
(* The quantity rules of create_stocks: calls on a feed of one row whose   *)
(* quantity is drawn from cells with a known outcome.                      *)
(***************************************************************************)
\* A quantity cell and what the rules of the feed give for it: the count,
\* or ok = FALSE where the cell is no quantity.
QuantityCase(cell, ok, v) == [cell |-> cell, ok |-> ok, v |-> v]

QuantityCases ==
    { QuantityCase(StrCell(<<">", "1", "0">>), TRUE, 100),
      QuantityCase(StrCell(<<"1">>), TRUE, 0),
      QuantityCase(IntCell(1), TRUE, 0),
      QuantityCase(StrCell(<<"0">>), TRUE, 0),
      QuantityCase(StrCell(<<"7">>), TRUE, 7),
      QuantityCase(StrCell(<<"1", "0">>), TRUE, 10),
      QuantityCase(StrCell(<<"1", "1">>), TRUE, 11),
      QuantityCase(IntCell(12), TRUE, 12),
      QuantityCase(StrCell(<<"0", "1">>), TRUE, 1),
      QuantityCase(StrCell(<<"+", "7">>), TRUE, 7),
      QuantityCase(StrCell(<<" ", "7", " ">>), TRUE, 7),
      QuantityCase(StrCell(<<"1", "_", "0">>), TRUE, 10),
      QuantityCase(StrCell(<<"-", "3">>), TRUE, 0 - 3),
      QuantityCase(StrCell(<<">", "1", "1">>), FALSE, 0),
      QuantityCase(StrCell(<<">", " ", "1", "0">>), FALSE, 0),
      QuantityCase(StrCell(<<"<", "1", "0">>), FALSE, 0),
      QuantityCase(StrCell(<<"a", "b">>), FALSE, 0),
      QuantityCase(StrCell(<<"1", ".", "0">>), FALSE, 0),
      QuantityCase(StrCell(<<"1", "_">>), FALSE, 0),
      QuantityCase(StrCell(<<"-">>), FALSE, 0),
      QuantityCase(StrCell(<<>>), FALSE, 0) }

QuantityFeeds ==
    {<<[Kod |-> StrCell(<<"A">>), Kolichestvo |-> c.cell, Tsena |-> <<"4">>]>> :
        c \in QuantityCases}

InitQuantity ==
    /\ \/ entry = "seller_functions" /\ target = "OZON"
       \/ entry = "market_functions" /\ target \in {"FBS", "DBS"}
    /\ pc = "call"
    /\ catalog = [t \in Targets |-> <<>>]
    /\ watch_remnants \in QuantityFeeds
    /\ \E ids \in IdLists :
          /\ enumerated = [t \in Targets |-> IF t = target THEN ids ELSE <<>>]
          /\ offer_ids = ids
    /\ InitLocals
    /\ NoArgs

SpecQuantity == InitQuantity /\ [][CallCreateStocks]_vars

(***************************************************************************)
(* price_conversion called on a drawn string and then on its own result.   *)
(***************************************************************************)
\* Characters of a price string.
MaxPrice == 4

\* A digit, another digit, the separator, a blank and a letter.
PriceChars == {"5", "9", ".", " ", "r"}

Prices == SeqsUpTo(PriceChars, MaxPrice)

InitPrice ==
    /\ entry = "price_conversion"
    /\ pc = "call"
    /\ target = "OZON"
    /\ price \in Prices
    /\ converted = <<>>
    /\ some_prod = NoResponse
    /\ div_lst = <<>>
    /\ div_n = 0
    /\ catalog = [t \in Targets |-> <<>>]
    /\ enumerated = [t \in Targets |-> <<>>]
    /\ offer_ids = <<>>
    /\ watch_remnants = <<>>
    /\ InitLocals

\* price_conversion(price), then price_conversion of what it returned.
CallPriceConversion ==
    /\ entry = "price_conversion"
    /\ pc = "call"
    /\ converted' = Append(converted,
                           price_conversion(IF converted = <<>> THEN price
                                            ELSE converted[Len(converted)]))
    /\ pc' = IF converted = <<>> THEN pc ELSE "returned"
    /\ UNCHANGED <<entry, target, catalog, cursor, product_list, offer_ids,
                   watch_remnants, stocks, prices, chunks, report, div_lst,
                   div_n, price, some_prod, enumerated, trace>>

SpecPrice == InitPrice /\ [][CallPriceConversion]_vars

(***************************************************************************)
(* get_offer_ids called on its own.  Every response is logged with what   *)
(* the remote returned: the items of the page, the next cursor and, for    *)
(* seller.py, the reported total.  The remote serves the entries that      *)
(* follow the cursor it is sent; the total it reports is the length of the *)
(* catalog, or, for the termination of the loop of seller.py, a wrong one.  *)
(***************************************************************************)
\* Entries of the catalog of an enumeration called on its own.
MaxListed == 3

\* The totals a remote may report for a catalog: its length, one less and
\* one more.
Totals(cat) == {t \in {Len(cat) - 1, Len(cat), Len(cat) + 1} : t >= 0}

\* The log holds the first MaxLog events of a call, enough for every fetch
\* of a remote that reports the length of the catalog; a loop that goes on
\* is not logged further.
MaxLog == MaxListed

Listings == SeqsUpTo(OfferIds, MaxListed)

Logged(e) == IF Len(trace) < MaxLog THEN Append(trace, e) ELSE trace

InitEnumerate ==
    /\ \/ entry = "seller_get_offer_ids" /\ target = "OZON"
       \/ entry = "market_get_offer_ids" /\ target \in {"FBS", "DBS"}
    /\ pc = "get_offer_ids"
    /\ \E cat \in Listings :
           catalog = [t \in Targets |-> IF t = target THEN cat ELSE <<>>]
    /\ enumerated = [t \in Targets |-> <<>>]
    /\ offer_ids = <<>>
    /\ watch_remnants = <<>>
    /\ InitLocals
    /\ NoArgs

InitSellerEnumerate == InitEnumerate /\ entry = "seller_get_offer_ids"

\* get_product_list(last_id, ...) of seller.py: the remote serves k entries
\* after last_id and reports total.
seller_get_product_list(k, total) ==
    LET items == SubSeq(catalog[target], cursor + 1, cursor + k)
        result == [items |-> items, total |-> total, cursor |-> cursor + k]
    IN  /\ some_prod' = result
        /\ trace' = Logged(Event("get_product_list", target, TRUE, cursor,
                                 result))
        /\ pc' = "fetched"
        /\ UNCHANGED <<div_lst, div_n, price, converted, entry, target,
                       catalog, cursor, product_list, offer_ids,
                       watch_remnants, stocks, prices, chunks, report,
                       enumerated>>

\* A remote that reports the length of the catalog.
SellerGetProductList ==
    /\ entry = "seller_get_offer_ids"
    /\ pc = "get_offer_ids"
    /\ \E k \in PageSizes(catalog[target], cursor, SellerPageLimit) :
           seller_get_product_list(k, Len(catalog[target]))

\* A remote that reports any of these totals, response by response.
SellerGetProductListAnyTotal ==
    /\ entry = "seller_get_offer_ids"
    /\ pc = "get_offer_ids"
    /\ \E k \in PageSizes(catalog[target], cursor, SellerPageLimit) :
       \E total \in Totals(catalog[target]) :
           seller_get_product_list(k, total)

\* The loop of get_offer_ids of seller.py never taking last_id from the
\* response.
seller_get_offer_ids_first_page ==
    LET got == product_list \o some_prod.items
    IN  /\ product_list' = got
        /\ cursor' = 0
        /\ pc' = IF some_prod.total = Len(got) THEN "return"
                 ELSE "get_offer_ids"
        /\ UNCHANGED <<args, entry, target, catalog, offer_ids,
                       watch_remnants, stocks, prices, chunks, report,
                       enumerated, trace>>

\* The rest of an iteration of the loop of get_offer_ids of seller.py.
seller_get_offer_ids ==
    LET got == product_list \o some_prod.items
    IN  /\ product_list' = got
        /\ cursor' = some_prod.cursor
        /\ pc' = IF some_prod.total = Len(got) THEN "return"
                 ELSE "get_offer_ids"
        /\ UNCHANGED <<args, entry, target, catalog, offer_ids,
                       watch_remnants, stocks, prices, chunks, report,
                       enumerated, trace>>

SellerExtend ==
    /\ entry = "seller_get_offer_ids"
    /\ pc = "fetched"
    /\ seller_get_offer_ids

\* get_product_list(page, ...) of market.py: nextPageToken is absent (0) on
\* the page that ends the catalog.
market_get_product_list(k) ==
    LET items == SubSeq(catalog[target], cursor + 1, cursor + k)
        page == IF cursor + k < Len(catalog[target]) THEN cursor + k ELSE 0
        result == [items |-> items, cursor |-> page]
    IN  /\ some_prod' = result
        /\ trace' = Logged(Event("get_product_list", target, TRUE, cursor,
                                 result))
        /\ pc' = "fetched"
        /\ UNCHANGED <<div_lst, div_n, price, converted, entry, target,
                       catalog, cursor, product_list, offer_ids,
                       watch_remnants, stocks, prices, chunks, report,
                       enumerated>>

MarketGetProductList ==
    /\ entry = "market_get_offer_ids"
    /\ pc = "get_offer_ids"
    /\ \E k \in PageSizes(catalog[target], cursor, MarketPageLimit) :
           market_get_product_list(k)

\* The rest of an iteration of the loop of get_offer_ids of market.py.
market_get_offer_ids ==
    /\ product_list' = product_list \o some_prod.items
    /\ cursor' = some_prod.cursor
    /\ pc' = IF some_prod.cursor = 0 THEN "return" ELSE "get_offer_ids"
    /\ UNCHANGED <<args, entry, target, catalog, offer_ids, watch_remnants,
                   stocks, prices, chunks, report, enumerated, trace>>

MarketExtend ==
    /\ entry = "market_get_offer_ids"
    /\ pc = "fetched"
    /\ market_get_offer_ids

\* The return statement: the offer ids of the fetched entries.
EnumerateReturn ==
    /\ entry \in {"seller_get_offer_ids", "market_get_offer_ids"}
    /\ pc = "return"
    /\ offer_ids' = product_list
    /\ enumerated' = [enumerated EXCEPT ![target] = product_list]
    /\ trace' = Logged(Returned(product_list))
    /\ pc' = "returned"
    /\ UNCHANGED <<args, entry, target, catalog, cursor, product_list,
                   watch_remnants, stocks, prices, chunks, report>>

NextEnumerate ==
    \/ SellerGetProductList
    \/ SellerExtend
    \/ MarketGetProductList
    \/ MarketExtend
    \/ EnumerateReturn

SpecEnumerate == InitEnumerate /\ [][NextEnumerate]_vars

\* seller.py against a remote free in the totals it reports.  The loop is
\* a running program and every fetch is answered: a step that can be made
\* is made.  Which total the remote reports is left open.
NextSellerEnumerate ==
    \/ SellerGetProductListAnyTotal
    \/ SellerExtend
    \/ EnumerateReturn

LiveSellerEnumerate ==
    /\ InitSellerEnumerate
    /\ [][NextSellerEnumerate]_vars
    /\ WF_vars(NextSellerEnumerate)

(***************************************************************************)
(* The whole model.                                                        *)
(***************************************************************************)
Init ==
    \/ InitSeller
    \/ InitMarket
    \/ InitFunctions
    \/ InitDispatch
    \/ InitQuantity
    \/ InitPrice
    \/ InitEnumerate

Next ==
    \/ SellerGetOfferIds
    \/ SellerDownloadStock
    \/ SellerCreateStocks
    \/ SellerUpdateStocks
    \/ SellerCreatePrices
    \/ SellerUpdatePrice
    \/ MarketDownloadStock
    \/ MarketGetOfferIds
    \/ MarketCreateStocks
    \/ MarketUpdateStocks
    \/ MarketUploadPrices
    \/ CallCreateStocks
    \/ CallCreatePrices
    \/ DispatchDivide
    \/ DispatchSubmit
    \/ CallPriceConversion
    \/ SellerGetProductList
    \/ SellerGetProductListAnyTotal
    \/ SellerExtend
    \/ MarketGetProductList
    \/ MarketExtend
    \/ EnumerateReturn

Spec == Init /\ [][Next]_vars

(***************************************************************************)
(* Vocabulary of the properties.                                           *)
(***************************************************************************)
Range(lst) == {lst[k] : k \in 1..Len(lst)}

Distinct(lst) == \A j, k \in 1..Len(lst) : j # k => lst[j] # lst[k]

\* The offer id of a stock or price entry of either script.
IdOf(e) ==
    IF "offer_id" \in DOMAIN e THEN e.offer_id
    ELSE IF "sku" \in DOMAIN e THEN e.sku
    ELSE e.id

\* The count of a stock entry of either script.
CountOf(e) == IF "stock" \in DOMAIN e THEN e.stock ELSE e.items[1].count

\* The positions of lst that hold an entry for id.
EntriesFor(lst, id) == {k \in 1..Len(lst) : IdOf(lst[k]) = id}

RowSku(watch) == PyStr(watch.Kod)

\* The feed rows (positions) with sku id.
RowsFor(id) == {k \in 1..Len(watch_remnants) : RowSku(watch_remnants[k]) = id}

Last == trace[Len(trace)]

\* The last thing that happened is a call of op.
LastIs(op) == trace # <<>> /\ Last.op = op

\* The last thing that happened is a call of op that returned.
Returns(op) == LastIs(op) /\ Last.ok

\* The successful calls of op (update_stocks, update_price) for target t.
SentAt(op, t) ==
    {k \in 1..Len(trace) : trace[k].op = op /\ trace[k].target = t /\ trace[k].ok}

\* The entries for id that were submitted through op for target t.
Sent(op, t, id) ==
    UNION {{<<k, j>> : j \in EntriesFor(trace[k].arg, id)} : k \in SentAt(op, t)}

Mains == {"seller_main", "market_main"}

\* A run of main that reached its end and hit no exception.
Completed(e) == entry = e /\ pc = "done" /\ report = "none"

(***************************************************************************)
(* C1: create_stocks returns a list with exactly one stock entry for each  *)
(* distinct offer id of the list it was given, duplicated ids included.    *)
(* Fails: the code keeps the ids in a list and never drops duplicates.     *)
(***************************************************************************)
C1_OneStockEntryPerDistinctId ==
    Returns("create_stocks") =>
        \A id \in Range(Last.arg) : Cardinality(EntriesFor(stocks, id)) = 1

(***************************************************************************)
(* C2: in a run of seller.py main without failure, with pairwise distinct  *)
(* enumerated ids and pairwise distinct feed skus, every enumerated id     *)
(* that has a feed row is sent in exactly one price update and in exactly  *)
(* one stock update.  Fails: create_prices gets the list from which        *)
(* create_stocks removed every matched id.                                 *)
(***************************************************************************)
C2_MatchedIdInOnePriceUpdate ==
    ( /\ Completed("seller_main")
      /\ Distinct(enumerated["OZON"])
      /\ Distinct([k \in 1..Len(watch_remnants) |-> RowSku(watch_remnants[k])]) )
    => \A id \in Range(enumerated["OZON"]) :
           RowsFor(id) # {} =>
               /\ Cardinality(Sent("update_price", "OZON", id)) = 1
               /\ Cardinality(Sent("update_stocks", "OZON", id)) = 1

(***************************************************************************)
(* C3: in a run of market.py main without failure, each of FBS and DBS     *)
(* completes the four stages: its catalog is enumerated, its updates are   *)
(* reconciled, its stock entries are all submitted, and the price update   *)
(* of every matched feed row with a price is submitted through             *)
(* update_price.  Stated on the end of the run.  Fails: main calls the     *)
(* coroutine function upload_prices without awaiting it.                   *)
(***************************************************************************)
C3_TargetsCompleteAllStages ==
    Completed("market_main") =>
        \A t \in {"FBS", "DBS"} :
            /\ \E k \in 1..Len(trace) :
                   trace[k].op = "get_offer_ids" /\ trace[k].target = t
            /\ \E k \in 1..Len(trace) :
                   /\ trace[k].op = "create_stocks"
                   /\ trace[k].target = t
                   /\ trace[k].ok
            /\ \A id \in Range(enumerated[t]) : Sent("update_stocks", t, id) # {}
            /\ \A k \in 1..Len(watch_remnants) :
                   ( /\ In(RowSku(watch_remnants[k]), enumerated[t])
                     /\ price_conversion(watch_remnants[k].Tsena) # <<>> )
                   => Sent("update_price", t, RowSku(watch_remnants[k])) # {}

(***************************************************************************)
(* C4: in market.py main, when a page fetch or a chunk submission of FBS   *)
(* fails, the failure is reported and the enumeration of DBS is still      *)
(* started in the same run.  Stated on the end of the run.  Fails: one try *)
(* statement holds both targets.                                           *)
(***************************************************************************)
C4_SecondTargetStillAttempted ==
    ( /\ entry = "market_main"
      /\ pc = "done"
      /\ \E k \in 1..Len(trace) :
             /\ trace[k].target = "FBS"
             /\ trace[k].op \in {"get_product_list", "update_stocks"}
             /\ ~trace[k].ok )
    => /\ report # "none"
       /\ \E k \in 1..Len(trace) :
              trace[k].target = "DBS" /\ trace[k].op = "get_product_list"

\* The quantity of a row is one create_stocks cannot map.
BadQuantity(watch) == ~seller_stock(watch).ok

\* Row k is matched by a create_stocks call on ids and its quantity is bad.
BadMatchedRow(k, ids) ==
    /\ In(RowSku(watch_remnants[k]), ids)
    /\ BadQuantity(watch_remnants[k])
    /\ \A j \in 1..(k - 1) : RowSku(watch_remnants[j]) # RowSku(watch_remnants[k])

(***************************************************************************)
(* C5: when a matched feed row has a quantity that is none of ">10", "1"   *)
(* or an integer, create_stocks still returns the stock updates of every   *)
(* other offer id it was given, and a run of main goes on.  Fails: int()   *)
(* raises ValueError out of create_stocks.                                 *)
(***************************************************************************)
C5_BadQuantityStaysLocal ==
    ( /\ LastIs("create_stocks")
      /\ \E k \in 1..Len(watch_remnants) : BadMatchedRow(k, Last.arg) )
    => /\ Last.ok
       /\ report = "none"
       /\ \A id \in Range(Last.arg) :
              (\A k \in RowsFor(id) : ~BadQuantity(watch_remnants[k]))
              => EntriesFor(stocks, id) # {}

\* The rows with sku id whose price normalizes to at least one digit.
PricedRowsFor(id) ==
    {k \in RowsFor(id) : price_conversion(watch_remnants[k].Tsena) # <<>>}

(***************************************************************************)
(* C6: when a matched feed row has a price that normalizes to the empty    *)
(* string, create_prices is not aborted, emits no price update for that    *)
(* row and still emits the price updates of the other matched rows: every  *)
(* id of the list gets one entry per row of it with a price.  Fails:       *)
(* seller.py emits an entry with the price "", market.py raises ValueError.*)
(***************************************************************************)
C6_EmptyPriceSkipped ==
    ( /\ LastIs("create_prices")
      /\ \E id \in Range(Last.arg) : RowsFor(id) # PricedRowsFor(id) )
    => /\ Last.ok
       /\ \A id \in Range(Last.arg) :
              Cardinality(EntriesFor(prices, id)) = Cardinality(PricedRowsFor(id))

(***************************************************************************)
(* C8: when several feed rows have the same sku and that sku occurs once   *)
(* in the offer-id list, only the first of them is used: the stock list    *)
(* of create_stocks and the price list of create_prices hold at most one   *)
(* entry for it.  Fails: create_prices removes nothing from the list, so   *)
(* every such row adds a price entry.                                      *)
(***************************************************************************)
C8_FirstOccurrenceWins ==
    \A id \in OfferIds :
        ( /\ Cardinality(RowsFor(id)) > 1
          /\ trace # <<>>
          /\ Last.ok
          /\ Cardinality({k \in 1..Len(Last.arg) : Last.arg[k] = id}) = 1 )
        => /\ LastIs("create_stocks") => Cardinality(EntriesFor(stocks, id)) = 1
           /\ LastIs("create_prices") => Cardinality(EntriesFor(prices, id)) <= 1

(***************************************************************************)
(* C7: when a page fetch of an enumeration fails, get_offer_ids makes no   *)
(* further page fetch and returns no list, the run ends, and no stock      *)
(* chunk and no price chunk is submitted for that target.                  *)
(***************************************************************************)
C7_FailedFetchEndsThePass ==
    \A k \in 1..Len(trace) :
        (trace[k].op = "get_product_list" /\ ~trace[k].ok) =>
            /\ pc = "done"
            /\ \A j \in (k + 1)..Len(trace) : trace[j].op # "get_product_list"
            /\ \A j \in 1..Len(trace) :
                   trace[j].target = trace[k].target =>
                       trace[j].op \notin
                           {"get_offer_ids", "update_stocks", "update_price"}

\* The fetch of a second page of DBS failed after the stock chunk of FBS
\* was submitted.
C7_Witness ==
    /\ entry = "market_main"
    /\ SentAt("update_stocks", "FBS") # {}
    /\ \E k \in 2..Len(trace) :
           /\ trace[k].op = "get_product_list" /\ ~trace[k].ok
           /\ trace[k].target = "DBS"
           /\ trace[k - 1].op = "get_product_list" /\ trace[k - 1].ok
           /\ trace[k - 1].target = "DBS"

RECURSIVE Submitted(_, _, _)
Submitted(op, t, n) ==
    IF n = 0 THEN <<>>
    ELSE Submitted(op, t, n - 1)
         \o (IF n \in SentAt(op, t) THEN trace[n].arg ELSE <<>>)

(***************************************************************************)
(* C10: within the pass of a target the stages run in order: an update     *)
(* list is built only after get_offer_ids returned with every page of the  *)
(* catalog fetched and no later fetch for the target follows; a stock      *)
(* chunk is submitted only after create_stocks returned; a price chunk is  *)
(* submitted only after the whole stock list was submitted, and no stock   *)
(* chunk of the target follows it.                                         *)
(***************************************************************************)
C10_StagesInOrder ==
    entry \in Mains =>
        \A k \in 1..Len(trace) :
            LET t == trace[k].target
            IN  /\ trace[k].op \in {"create_stocks", "create_prices"} =>
                       /\ \E j \in 1..(k - 1) :
                              /\ trace[j].op = "get_offer_ids"
                              /\ trace[j].target = t
                              /\ Len(trace[j].arg) = Len(catalog[t])
                       /\ \A j \in (k + 1)..Len(trace) :
                              ~(trace[j].op = "get_product_list"
                                /\ trace[j].target = t)
                /\ trace[k].op = "update_stocks" =>
                       /\ \E j \in 1..(k - 1) :
                              /\ trace[j].op = "create_stocks"
                              /\ trace[j].target = t
                              /\ trace[j].ok
                       /\ \A j \in (k + 1)..Len(trace) :
                              ~(trace[j].op = "create_stocks"
                                /\ trace[j].target = t)
                /\ trace[k].op = "update_price" =>
                       /\ Submitted("update_stocks", t, k) = stocks
                       /\ \A j \in (k + 1)..Len(trace) :
                              ~(trace[j].op = "update_stocks"
                                /\ trace[j].target = t)

\* A run of seller.py main that fetched two pages and submitted a stock
\* chunk and a price chunk.
C10_Witness ==
    /\ Completed("seller_main")
    /\ SentAt("update_stocks", "OZON") # {}
    /\ SentAt("update_price", "OZON") # {}
    /\ Cardinality(SentAt("get_product_list", "OZON")) > 1

(***************************************************************************)
(* The dispatch loops.                                                     *)
(***************************************************************************)
RECURSIVE Flatten(_)
Flatten(lsts) ==
    IF lsts = <<>> THEN <<>> ELSE Head(lsts) \o Flatten(Tail(lsts))

\* The chunks the first k events of the trace submitted with success.
RECURSIVE OkChunks(_)
OkChunks(k) ==
    IF k = 0 THEN <<>>
    ELSE IF trace[k].op \in UpdateOps /\ trace[k].ok
         THEN Append(OkChunks(k - 1), trace[k].arg)
         ELSE OkChunks(k - 1)

Ceil(a, b) == (a + b - 1) \div b

\* C11: a dispatch loop submits the chunks of its list at most once each and
\* in list order: the chunks submitted so far followed by the pending ones
\* are the chunks of the list. A failed submission is the last call of the
\* loop: the exception leaves the loop, the failed chunk is still the first
\* pending one and is not submitted again, no later chunk is submitted, and
\* the chunks submitted before it remain submitted.
C11_ChunksOnceInOrderFailureStops ==
    (entry = "dispatch" /\ trace # <<>> /\ trace[1].ok) =>
        /\ OkChunks(Len(trace)) \o chunks = divide(div_lst, div_n).chunks
        /\ \A k \in 2..Len(trace) :
               /\ trace[k].op = pc \/ pc \in {"returned", "raised"}
               /\ ~trace[k].ok =>
                      /\ k = Len(trace)
                      /\ pc = "raised"
                      /\ chunks # <<>>
                      /\ trace[k].arg = Head(chunks)
        /\ pc = "raised" => ~Last.ok
        /\ pc = "returned" => chunks = <<>>

\* The second of three chunks failed: the first stays submitted, the third
\* is never submitted.
C11_Witness ==
    /\ entry = "dispatch"
    /\ pc = "raised"
    /\ Len(trace) = 3
    /\ trace[2].ok
    /\ ~trace[3].ok
    /\ Len(chunks) = 2

\* C12: for a list of N entries and a batch size B > 0, list(divide(lst, B))
\* has ceil(N / B) chunks (none for N = 0, and then the loop makes no update
\* call), every chunk but the last has B entries, the last has between 1 and
\* B, and the chunks concatenated are the list.
C12_DivideChunks ==
    (entry = "dispatch" /\ div_n > 0 /\ trace # <<>>) =>
        /\ trace[1].ok
        /\ Len(trace) = 1 =>
               /\ Len(chunks) = Ceil(Len(div_lst), div_n)
               /\ \A i \in 1..(Len(chunks) - 1) : Len(chunks[i]) = div_n
               /\ chunks # <<>> =>
                      /\ Len(chunks[Len(chunks)]) >= 1
                      /\ Len(chunks[Len(chunks)]) <= div_n
               /\ Flatten(chunks) = div_lst
        /\ div_lst = <<>> => (Len(trace) = 1 /\ pc = "returned")

\* Seven entries divided by three: two full chunks and a last one of one.
C12_Witness ==
    /\ entry = "dispatch"
    /\ Len(trace) = 1
    /\ div_n = 3
    /\ Len(chunks) = 3
    /\ Len(chunks[3]) = 1

\* C13: every chunk handed to a remote update call by a loop of the source
\* is non-empty and within the limit of the call: 100 stock entries and 1000
\* price entries in seller.py, 2000 stock entries and 500 price entries in
\* market.py.
C13_ChunksWithinLimits ==
    \A k \in 1..Len(trace) :
        (/\ entry = "dispatch"
         /\ trace[k].op \in UpdateOps
         /\ [target |-> target, op |-> trace[k].op, n |-> div_n] \in CodeLoops)
        => /\ Len(trace[k].arg) >= 1
           /\ Len(trace[k].arg) <=
                  IF target = "OZON"
                  THEN (IF trace[k].op = "update_stocks" THEN 100 ELSE 1000)
                  ELSE (IF trace[k].op = "update_stocks" THEN 2000 ELSE 500)

\* upload_prices of seller.py sent 2001 prices: two calls of 1000 and one
\* of 1.
C13_Witness ==
    /\ entry = "dispatch"
    /\ target = "OZON"
    /\ div_n = SellerUploadPriceLimit
    /\ pc = "returned"
    /\ Len(trace) = 4
    /\ Len(trace[2].arg) = 1000
    /\ Len(trace[4].arg) = 1

\* C14: a dispatch with a batch size n <= 0 fails with an error and submits
\* nothing: list(divide(lst, n)) raises before yielding a chunk, for the
\* empty list as for any other, so no update call is made.
C14_NonPositiveBatchFails ==
    (entry = "dispatch" /\ div_n <= 0 /\ trace # <<>>) =>
        /\ Len(trace) = 1
        /\ trace[1].op = "divide"
        /\ ~trace[1].ok
        /\ chunks = <<>>
        /\ pc = "raised"

\* The empty list with a negative batch size.
C14_Witness ==
    /\ entry = "dispatch"
    /\ div_n < 0
    /\ div_lst = <<>>
    /\ pc = "raised"

(***************************************************************************)
(* The quantity rules.                                                     *)
(***************************************************************************)
\* What the rules give for the quantity cell of the one row of the feed.
Expected == CHOOSE c \in QuantityCases : c.cell = watch_remnants[1].Kolichestvo

\* C15: in the list create_stocks returns, the count of every entry is at
\* least 0.  Fails: a quantity such as "-3" is an integer literal and int()
\* gives -3.
C15_CountsNonNegative ==
    Returns("create_stocks") =>
        \A k \in 1..Len(stocks) : CountOf(stocks[k]) >= 0

\* C16: the quantity of a matched row maps by exact match of the token:
\* ">10" gives 100, "1" gives 0, every other token int() reads as a base-10
\* integer gives that integer, and on any other token create_stocks fails.
C16_QuantityMapping ==
    ( /\ LastIs("create_stocks")
      /\ Len(watch_remnants) = 1
      /\ In(RowSku(watch_remnants[1]), Last.arg) )
    => IF Expected.ok
       THEN /\ Last.ok
            /\ IdOf(stocks[1]) = RowSku(watch_remnants[1])
            /\ CountOf(stocks[1]) = Expected.v
       ELSE ~Last.ok

\* create_stocks of seller.py returned 11 for the quantity "11".
C16_Witness ==
    /\ entry = "seller_functions"
    /\ Returns("create_stocks")
    /\ watch_remnants[1].Kolichestvo = StrCell(<<"1", "1">>)
    /\ stocks # <<>>
    /\ CountOf(stocks[1]) = 11

(***************************************************************************)
(* price_conversion.                                                       *)
(***************************************************************************)
\* The positions of x before its first ".", or all of them without one.
BeforeFirstDot(x) ==
    {k \in 1..Len(x) : \A j \in 1..k : x[j] # "."}

\* The i-th smallest number of the set S.
Nth(S, i) == CHOOSE k \in S : Cardinality({j \in S : j < k}) = i - 1

\* C17: price_conversion(x) is the sequence of the ASCII digits that stand
\* in x before its first ".", in their order: it holds no other character
\* and is empty when that part holds no digit.
C17_DigitsBeforeFirstDot ==
    converted # <<>> =>
        LET P == {k \in BeforeFirstDot(price) : price[k] \in {"5", "9"}}
        IN  /\ Len(converted[1]) = Cardinality(P)
            /\ \A i \in 1..Len(converted[1]) :
                   converted[1][i] = price[Nth(P, i)]

\* "5r.9" gives "5": the letter and everything from the "." on are dropped.
C17_Witness ==
    /\ price = <<"5", "r", ".", "9">>
    /\ converted # <<>>
    /\ converted[1] = <<"5">>

\* C18: price_conversion applied to its own result returns that result.
C18_Idempotent ==
    Len(converted) = 2 => converted[2] = converted[1]

\* Both calls made on " 9.5", which the first call changed.
C18_Witness ==
    /\ price = <<" ", "9", ".", "5">>
    /\ Len(converted) = 2
    /\ converted[2] = <<"9">>

(***************************************************************************)
(* The list create_stocks returns and the lists it was given.              *)
(***************************************************************************)
\* How many of the first p ids of the list are ids[p].
Occurrence(ids, p) == Cardinality({q \in 1..p : ids[q] = ids[p]})

\* The feed rows create_stocks matches in a call on ids that returns: a row
\* is matched while the list still holds its sku, and each match takes one
\* occurrence of the sku out of the list.
MatchedRows(ids) ==
    {k \in 1..Len(watch_remnants) :
        Cardinality({j \in RowsFor(RowSku(watch_remnants[k])) : j <= k})
            <= Cardinality({q \in 1..Len(ids) :
                               ids[q] = RowSku(watch_remnants[k])})}

\* The positions of ids no row takes out.
UnmatchedPositions(ids) ==
    {p \in 1..Len(ids) : Occurrence(ids, p) > Cardinality(RowsFor(ids[p]))}

C20_InputsUnchanged ==
    /\ Returns("create_stocks") => offer_ids = Last.arg
    /\ Returns("create_prices") => Last.arg \in {offer_ids, enumerated[target]}

(***************************************************************************)
(* The enumeration.                                                        *)
(***************************************************************************)
\* The logged calls of get_product_list.
Fetches == {k \in 1..Len(trace) : trace[k].op = "get_product_list"}

\* C21: against a catalog that does not change and a remote that reports
\* its length, get_offer_ids sends the first fetch with the empty cursor
\* and every later fetch with the cursor the previous response returned
\* (last_id, nextPageToken), and it returns the offer id of every catalog
\* entry once, in the order of the pages: the pages served, one after the
\* other, are the catalog and the list returned.  For the empty catalog the
\* list is empty.
C21_CursorProtocol ==
    entry \in {"seller_get_offer_ids", "market_get_offer_ids"} =>
        /\ \A k \in Fetches :
               trace[k].cursor = IF k = 1 THEN 0 ELSE trace[k - 1].arg.cursor
        /\ pc = "returned" =>
               /\ offer_ids = catalog[target]
               /\ offer_ids =
                      Flatten([k \in 1..Cardinality(Fetches) |->
                                  trace[k].arg.items])

\* market.py enumerated a catalog of three entries in three pages.
C21_Witness ==
    /\ entry = "market_get_offer_ids"
    /\ pc = "returned"
    /\ Cardinality(Fetches) = 3
    /\ trace[3].cursor = 2
    /\ Len(offer_ids) = 3

\* C22: against a finite catalog, whatever totals the successful responses
\* report, get_offer_ids of seller.py stops fetching and returns.  Fails:
\* the loop ends only on a response whose total equals the number of
\* entries fetched so far.
C22_SellerEnumerationReturns == <>(pc = "returned")

=============================================================================
